---------------------------- MODULE Spec2Model ----------------------------
(***************************************************************************)
(* Channel / ChannelUnit of                                                *)
(* mmrazor/models/mutables/mutable_channel/units/channel_unit.py.          *)
(*                                                                         *)
(* Python objects live on heaps: `lists` holds the list objects that units *)
(* reference (so that two units can share one list), `units` the           *)
(* ChannelUnit objects, `caller_cfg` the dict objects of the config the    *)
(* caller hands to init_from_cfg, `default_args` the one dict object that  *)
(* is the default value of init_from_channel_unit's `args` parameter.      *)
(* `last` records the most recent call: its arguments and what it returned *)
(* or raised; `source_of` records, for every unit, the unit it was built   *)
(* from by init_from_channel_unit (None for the others).                   *)
(***************************************************************************)
EXTENDS Integers, Sequences, FiniteSets, TLC

VARIABLES units, lists, default_args, caller_cfg, source_of, last

vars == <<units, lists, default_args, caller_cfg, source_of, last>>

\* The attribute and key names of the objects and call records below.  TLC
\* keeps the fields of a record in the order in which their names first
\* occur in the module; every record below lists its fields in this order.
FieldNames ==
    DOMAIN [op |-> {}, unit |-> {}, args |-> {}, defaulted |-> {},
            args_at_entry |-> {}, heap |-> {}, ref |-> {}, list |-> {},
            loaded |-> {}, channel |-> {}, model |-> {}, config |-> {},
            new |-> {}, num_channels |-> {}, input_related |-> {},
            output_related |-> {}, init_args |-> {}, channels |-> {},
            loaded_input |-> {}, loaded_output |-> {}, raised |-> {},
            before |-> {}, result |-> {}, name |-> {}, module |-> {},
            index |-> {}, start |-> {}, end |-> {}, node |-> {},
            is_output_channel |-> {}, choice_mode |-> {}]

\* ------------------------------------------------------------------ bounds

\* units and channels in the specification of shared lists
MaxUnits == 3
MaxShared == 2
\* units and channels in the specification of one unit under add_*
MaxSingle == 1
MaxChannels == 2
\* channel configs in a config handed to init_from_cfg
MaxCfgChannels == 2

\* -------------------------------------------------------------- dict tools

\* {} : the empty dict
EmptyDict == [k \in {} |-> 0]

\* d[k] = v on a dict
SetItem(d, k, v) == [j \in DOMAIN d \cup {k} |-> IF j = k THEN v ELSE d[j]]

\* d.pop(k) on a dict: the dict that is left
DelItem(d, k) == [j \in DOMAIN d \ {k} |-> d[j]]

\* ----------------------------------------------------- the external model

\* Python's None (an absent module, an absent node)
None == 0

\* nn.Module objects, by identity; each has a parameter list and may mix in
\* DynamicChannelMixin.  Module 5 is a root container.
ModuleIds == 1 .. 5

n_parameters(module) ==
    CASE module = 1 -> 0
      [] module = 2 -> 0
      [] module = 3 -> 2
      [] module = 4 -> 2
      [] OTHER      -> 0

is_DynamicChannelMixin(module) == module \in {2, 4}

\* dict(model.named_modules()): '' is the model itself.
Models == {"net_a", "net_b"}

named_modules(model) ==
    IF model = "net_a"
    THEN [n \in {"", "conv1", "conv2"} |->
            CASE n = "" -> 5 [] n = "conv1" -> 3 [] OTHER -> 4]
    ELSE [n \in {"", "conv1", "bn1"} |->
            CASE n = "" -> 5 [] n = "conv1" -> 4 [] OTHER -> 1]

\* ------------------------------------------------------------------ Channel

\* Channel.__init__
Channel(name, module, index, node, is_output_channel) ==
    [name |-> name, module |-> module, index |-> index,
     start |-> index[1], end |-> index[2],
     node |-> node, is_output_channel |-> is_output_channel]

\* str(name) of a name that is a str
str(name) == name

ConfigTemplateFromZero(self) ==
    [name |-> str(self.name), start |-> 0, end |-> self.end,
     is_output_channel |-> self.is_output_channel]

\* Channel.config_template
Channel_config_template(self) ==
    [name |-> str(self.name), start |-> self.start, end |-> self.end,
     is_output_channel |-> self.is_output_channel]

\* Channel.init_from_cfg
Channel_init_from_cfg(model, config) ==
    LET name == config.name
        start == config.start
        end == config.end
        is_output_channel == config.is_output_channel
        name2module == DelItem(named_modules(model), "")
        module == IF name \in DOMAIN name2module THEN name2module[name]
                  ELSE None
    IN  Channel(name, module, <<start, end>>, None, is_output_channel)

\* Channel(name, module, index): node and is_output_channel at their defaults
NewChannel(name, module, index) == Channel(name, module, index, None, TRUE)

\* Channel.num_channels
Channel_num_channels(self) == self.index[2] - self.index[1]

IsMutableNoDynamicCheck(self) ==
    IF self.module # None
    THEN n_parameters(self.module) = 0
    ELSE ~(self.name \in {"input_placeholder", "output_placeholder"})

\* Channel.is_mutable
Channel_is_mutable(self) ==
    IF self.module # None
    THEN LET has_prama == n_parameters(self.module) # 0
             is_dynamic_op == is_DynamicChannelMixin(self.module)
         IN  (~has_prama) \/ is_dynamic_op
    ELSE LET is_unmutable ==
                 self.name \in {"input_placeholder", "output_placeholder"}
         IN  ~is_unmutable

\* Channel.__eq__ (nn.Module defines no __eq__: modules compare by identity)
Channel_eq(self, obj) ==
    /\ self.name = obj.name
    /\ self.module = obj.module
    /\ self.index = obj.index
    /\ self.is_output_channel = obj.is_output_channel
    /\ self.node = obj.node

\* `channel in list`
Contains(list, channel) ==
    \E i \in 1 .. Len(list) : Channel_eq(list[i], channel)

\* -------------------------------------------------------------- ChannelUnit

\* ChannelUnit.__init__: output_related and input_related are the list
\* objects at the two given references
ChannelUnit(num_channels, output_related, input_related) ==
    [num_channels |-> num_channels,
     input_related |-> input_related,
     output_related |-> output_related,
     init_args |-> EmptyDict]

AddOutputRelatedNoDedup(list, channel) ==
    IF ~channel.is_output_channel
    THEN [list |-> list, raised |-> TRUE]
    ELSE [list |-> Append(list, channel), raised |-> FALSE]

\* ChannelUnit.add_output_related, on the contents of self.output_related
add_output_related(list, channel) ==
    IF ~channel.is_output_channel
    THEN [list |-> list, raised |-> TRUE]
    ELSE [list |-> IF ~Contains(list, channel) THEN Append(list, channel)
                   ELSE list,
          raised |-> FALSE]

AddInputRelatedNoAssert(list, channel) ==
    [list |-> IF ~Contains(list, channel) THEN Append(list, channel)
              ELSE list,
     raised |-> FALSE]

\* ChannelUnit.add_input_related, on the contents of self.input_related
add_input_related(list, channel) ==
    IF channel.is_output_channel # FALSE
    THEN [list |-> list, raised |-> TRUE]
    ELSE [list |-> IF ~Contains(list, channel) THEN Append(list, channel)
                   ELSE list,
          raised |-> FALSE]

\* f'{index}' of a tuple of two ints
FormatIndex(index) ==
    "(" \o ToString(index[1]) \o ", " \o ToString(index[2]) \o ")"

NameInputFirst(self, heap) ==
    LET output_related == heap[self.output_related]
        input_related == heap[self.input_related]
        first_module_name ==
            IF Len(output_related) + Len(input_related) > 0
            THEN LET first_module == (input_related \o output_related)[1]
                 IN  first_module.name \o "_" \o FormatIndex(first_module.index)
            ELSE "unitx"
        name == first_module_name \o "_" \o ToString(self.num_channels)
    IN  IF "_name" \in DOMAIN self THEN self["_name"] ELSE name

\* ChannelUnit.name (the property): heap holds the list objects
ChannelUnit_name(self, heap) ==
    LET output_related == heap[self.output_related]
        input_related == heap[self.input_related]
        first_module_name ==
            IF Len(output_related) + Len(input_related) > 0
            THEN LET first_module == (output_related \o input_related)[1]
                 IN  first_module.name \o "_" \o FormatIndex(first_module.index)
            ELSE "unitx"
        name == first_module_name \o "_" \o ToString(self.num_channels)
    IN  IF "_name" \in DOMAIN self THEN self["_name"] ELSE name

\* ChannelUnit.alias
ChannelUnit_alias(self, heap) == ChannelUnit_name(self, heap)

\* the number of channels held by all list objects
RECURSIVE TotalLen(_)
TotalLen(heap) ==
    IF heap = <<>> THEN 0 ELSE Len(Head(heap)) + TotalLen(Tail(heap))

\* ---------------------------------------------------------------- configs
\* A config is a dict object on a heap of dict objects: heap[ref] is
\*   [init_args |-> [num_channels |-> n]]  with, when it has a channel list,
\*   channels |-> the reference of the dict object
\*   [input_related |-> <<channel config, ...>>, output_related |-> <<...>>].

ShallowCopy(heap, ref) == [heap |-> Append(heap, heap[ref]), ref |-> Len(heap) + 1]

\* copy.deepcopy(config): the heap with a copy of every object of the config,
\* and the reference of the copy
deepcopy(heap, ref) ==
    LET top == heap[ref]
        n == Len(heap)
    IN  IF "channels" \in DOMAIN top
        THEN [heap |-> heap \o <<SetItem(top, "channels", n + 2),
                                 heap[top.channels]>>,
              ref |-> n + 1]
        ELSE [heap |-> Append(heap, top), ref |-> n + 1]

AutoFillEndExclusive(channel_config, is_output_channel, unit_config) ==
    LET c1 == IF "start" \notin DOMAIN channel_config
              THEN SetItem(channel_config, "start", 0)
              ELSE channel_config
        c2 == IF "end" \notin DOMAIN c1
              THEN SetItem(c1, "end", unit_config.init_args.num_channels - 1)
              ELSE c1
    IN  SetItem(c2, "is_output_channel", is_output_channel)

\* ChannelUnit.init_from_cfg.auto_fill_channel_config: the channel config
\* dict after the call
auto_fill_channel_config(channel_config, is_output_channel, unit_config) ==
    LET c1 == IF "start" \notin DOMAIN channel_config
              THEN SetItem(channel_config, "start", 0)
              ELSE channel_config
        c2 == IF "end" \notin DOMAIN c1
              THEN SetItem(c1, "end", unit_config.init_args.num_channels)
              ELSE c1
    IN  SetItem(c2, "is_output_channel", is_output_channel)

\* The two for-loops of ChannelUnit.init_from_cfg, from the i-th channel
\* config of channels[key] on: each config is filled in place, resolved, and
\* added.  acc = [heap, list, loaded, raised]: the dict heap, the contents of
\* the unit's list, the Channels built so far, whether add_* raised.
RECURSIVE LoadChannels(_, _, _, _, _, _, _)
LoadChannels(model, channels, key, is_output_channel, unit_config, i, acc) ==
    IF acc.raised \/ i > Len(acc.heap[channels][key]) THEN acc
    ELSE
      LET filled == auto_fill_channel_config(acc.heap[channels][key][i],
                                             is_output_channel,
                                             acc.heap[unit_config])
          heap1 == [acc.heap EXCEPT ![channels][key][i] = filled]
          channel == Channel_init_from_cfg(model, filled)
          r == IF is_output_channel
               THEN add_output_related(acc.list, channel)
               ELSE add_input_related(acc.list, channel)
      IN  LoadChannels(model, channels, key, is_output_channel, unit_config,
                       i + 1,
                       [heap |-> heap1, list |-> r.list,
                        loaded |-> Append(acc.loaded, channel),
                        raised |-> r.raised])

\* ChannelUnit.init_from_cfg(model, config): config0 is the reference of the
\* caller's config on heap.  The result gives the unit's num_channels and the
\* contents of its two lists, the Channels built from the channel configs in
\* order, and the heap of dict objects when the call returns.
init_from_cfg(model, heap, config0) ==
    LET unit_config == config0
        copy == deepcopy(heap, config0)
        heap1 == copy.heap
        config == copy.ref
        has_channels == "channels" \in DOMAIN heap1[config]
        channels == IF has_channels THEN heap1[config].channels ELSE None
        heap2 == IF has_channels
                 THEN [heap1 EXCEPT ![config] = DelItem(@, "channels")]
                 ELSE heap1
        num_channels == heap2[config].init_args.num_channels
        empty == [heap |-> heap2, list |-> <<>>, loaded |-> <<>>,
                  raised |-> FALSE]
        inp == IF channels # None
               THEN LoadChannels(model, channels, "input_related", FALSE,
                                 unit_config, 1, empty)
               ELSE empty
        out == IF channels # None
               THEN LoadChannels(model, channels, "output_related", TRUE,
                                 unit_config, 1,
                                 [inp EXCEPT !.list = <<>>, !.loaded = <<>>])
               ELSE inp
    IN  [heap |-> out.heap,
         num_channels |-> num_channels,
         input_related |-> inp.list, output_related |-> out.list,
         loaded_input |-> inp.loaded, loaded_output |-> out.loaded,
         raised |-> out.raised]

\* [channel.config_template() for channel in list]
RECURSIVE ConfigTemplates(_)
ConfigTemplates(list) ==
    IF list = <<>> THEN <<>>
    ELSE <<Channel_config_template(Head(list))>> \o ConfigTemplates(Tail(list))

\* ChannelUnit._channel_dict
ChannelUnit_channel_dict(self, heap) ==
    [input_related |-> ConfigTemplates(heap[self.input_related]),
     output_related |-> ConfigTemplates(heap[self.output_related])]

\* ChannelUnit.config_template(with_init_args, with_channels): the dict
\* objects of the config, the config itself first
ChannelUnit_config_template(self, heap, with_init_args, with_channels) ==
    LET c0 == EmptyDict
        c1 == IF with_init_args
              THEN SetItem(c0, "init_args", [num_channels |-> self.num_channels])
              ELSE c0
    IN  IF with_channels
        THEN <<SetItem(c1, "channels", 2), ChannelUnit_channel_dict(self, heap)>>
        ELSE <<c1>>

\* --------------------------------------------------------------- actions

\* unit = ChannelUnit(num_channels)
Construct(num_channels, max_units) ==
    /\ Len(units) < max_units
    /\ lists' = lists \o << <<>>, <<>> >>
    /\ units' = Append(units,
                       ChannelUnit(num_channels, Len(lists) + 1, Len(lists) + 2))
    /\ source_of' = Append(source_of, None)
    /\ last' = [op |-> "__init__", unit |-> Len(units) + 1]
    /\ UNCHANGED <<default_args, caller_cfg>>

\* units[u].add_output_related(channel)
AddOutputRelated(u, channel, max_channels) ==
    LET ref == units[u].output_related
        r == add_output_related(lists[ref], channel)
    IN  /\ lists' = [lists EXCEPT ![ref] = r.list]
        /\ TotalLen(lists') <= max_channels
        /\ last' = [op |-> "add_output_related", unit |-> u,
                    channel |-> channel, raised |-> r.raised,
                    before |-> <<lists[units[u].output_related],
                                 lists[units[u].input_related]>>]
        /\ UNCHANGED <<units, default_args, caller_cfg, source_of>>

\* units[u].add_input_related(channel)
AddInputRelated(u, channel, max_channels) ==
    LET ref == units[u].input_related
        r == add_input_related(lists[ref], channel)
    IN  /\ lists' = [lists EXCEPT ![ref] = r.list]
        /\ TotalLen(lists') <= max_channels
        /\ last' = [op |-> "add_input_related", unit |-> u,
                    channel |-> channel, raised |-> r.raised,
                    before |-> <<lists[units[u].output_related],
                                 lists[units[u].input_related]>>]
        /\ UNCHANGED <<units, default_args, caller_cfg, source_of>>

\* units[u].name = unit_name
SetName(u, unit_name) ==
    /\ units' = [units EXCEPT ![u] = SetItem(@, "_name", unit_name)]
    /\ last' = [op |-> "name.setter", unit |-> u]
    /\ UNCHANGED <<lists, default_args, caller_cfg, source_of>>

InitFromChannelUnitCopyLists(unit, args, heap) ==
    LET args1 == SetItem(args, "num_channels", unit.num_channels)
        mutable_unit == ChannelUnit(args1.num_channels,
                                    Len(heap) + 1, Len(heap) + 2)
    IN  [unit |-> mutable_unit,
         args |-> args1,
         heap |-> heap \o <<heap[unit.output_related],
                            heap[unit.input_related]>>]

\* ChannelUnit.init_from_channel_unit(unit, args): the new unit, the args
\* dict after the call, and the heap of list objects.  The two lists that
\* __init__ creates are unreferenced once the unit's are assigned, and are
\* not kept on the heap.
init_from_channel_unit(unit, args, heap) ==
    LET args1 == SetItem(args, "num_channels", unit.num_channels)
        mutable_unit == ChannelUnit(args1.num_channels,
                                    Len(heap) + 1, Len(heap) + 2)
    IN  [unit |-> [mutable_unit EXCEPT
                     !.input_related = unit.input_related,
                     !.output_related = unit.output_related],
         args |-> args1,
         heap |-> heap]

\* new = ChannelUnit.init_from_channel_unit(units[u], args), or with args
\* omitted (defaulted): args is then the default-value object
InitFromChannelUnit(u, defaulted, given_args) ==
    LET args == IF defaulted THEN default_args ELSE given_args
        r == init_from_channel_unit(units[u], args, lists)
    IN  /\ Len(units) < MaxUnits
        /\ units' = Append(units, r.unit)
        /\ lists' = r.heap
        /\ default_args' = IF defaulted THEN r.args ELSE default_args
        /\ source_of' = Append(source_of, u)
        /\ last' = [op |-> "init_from_channel_unit", unit |-> Len(units) + 1,
                    defaulted |-> defaulted, args_at_entry |-> args]
        /\ UNCHANGED caller_cfg


\* unit = ChannelUnit.init_from_cfg(model, config) on the caller's config;
\* the copies the call made are unreferenced when it returns
InitFromCfg(model, max_units, max_channels) ==
    /\ Len(units) < max_units
    /\ LET r == init_from_cfg(model, caller_cfg, 1)
       IN  /\ caller_cfg' = SubSeq(r.heap, 1, Len(caller_cfg))
           /\ IF r.raised
              THEN UNCHANGED <<units, lists, source_of>>
              ELSE /\ units' = Append(units,
                                      ChannelUnit(r.num_channels,
                                                  Len(lists) + 1,
                                                  Len(lists) + 2))
                   /\ lists' = lists \o <<r.output_related, r.input_related>>
                   /\ source_of' = Append(source_of, None)
           /\ TotalLen(lists') <= max_channels
           /\ last' = [op |-> "init_from_cfg", unit |-> Len(units) + 1,
                       model |-> model, config |-> caller_cfg,
                       loaded_input |-> r.loaded_input,
                       loaded_output |-> r.loaded_output,
                       raised |-> r.raised]
    /\ UNCHANGED default_args

\* new = ChannelUnit.init_from_cfg(model,
\*           units[u].config_template(with_init_args=True, with_channels=True))
\* The new unit is kept in last.new, with the contents of its lists.
RoundTrip(u, model) ==
    /\ LET config == ChannelUnit_config_template(units[u], lists, TRUE, TRUE)
           r == init_from_cfg(model, config, 1)
       IN  /\ caller_cfg' = SubSeq(r.heap, 1, Len(config))
           /\ last' = [op |-> "round_trip", unit |-> u, model |-> model,
                       new |-> [num_channels |-> r.num_channels,
                                input_related |-> r.input_related,
                                output_related |-> r.output_related],
                       raised |-> r.raised]
    /\ UNCHANGED <<units, lists, default_args, source_of>>

\* channel = Channel(name, module, index)
MakeChannel(channel) ==
    /\ last' = [op |-> "Channel", channel |-> channel]
    /\ UNCHANGED <<units, lists, default_args, caller_cfg, source_of>>

\* channel.is_mutable, of the channel just made
IsMutable ==
    /\ last.op = "Channel"
    /\ last' = [op |-> "is_mutable", channel |-> last.channel,
                result |-> Channel_is_mutable(last.channel)]
    /\ UNCHANGED <<units, lists, default_args, caller_cfg, source_of>>

\* ------------------------------------------------- specification: sharing

NumChannels == {2, 16}

\* channels handed to add_*
SharedChannels ==
    { Channel("conv1", 3, <<0, 2>>, None, TRUE),
      Channel("conv2", 4, <<0, 2>>, None, FALSE) }

ExplicitArgs == {EmptyDict, [choice_mode |-> "number"]}

Init ==
    /\ units = <<>>
    /\ lists = <<>>
    /\ default_args = EmptyDict
    /\ caller_cfg = <<>>
    /\ source_of = <<>>
    /\ last = [op |-> "none"]

Next ==
    \/ \E n \in NumChannels : Construct(n, MaxUnits)
    \/ \E u \in 1 .. Len(units), c \in SharedChannels :
          AddOutputRelated(u, c, MaxShared)
    \/ \E u \in 1 .. Len(units), c \in SharedChannels :
          AddInputRelated(u, c, MaxShared)
    \/ \E u \in 1 .. Len(units) : InitFromChannelUnit(u, TRUE, EmptyDict)
    \/ \E u \in 1 .. Len(units), a \in ExplicitArgs :
          InitFromChannelUnit(u, FALSE, a)

Spec == Init /\ [][Next]_vars

\* ------------------------------------------- specification: a single unit

\* channels handed to add_*; they differ from the first in one field each
UnitChannels ==
    { Channel("conv1", 3, <<0, 2>>, None, TRUE),
      Channel("conv2", 3, <<0, 2>>, None, TRUE),
      Channel("conv1", 4, <<0, 2>>, None, TRUE),
      Channel("conv1", 3, <<1, 2>>, None, TRUE),
      Channel("conv1", 3, <<0, 2>>, 1, TRUE),
      Channel("conv1", 3, <<0, 2>>, None, FALSE),
      Channel("conv2", 4, <<0, 1>>, None, FALSE) }

UnitNames == {"backbone"}

NextSingle ==
    \/ \E n \in NumChannels : Construct(n, MaxSingle)
    \/ \E u \in 1 .. Len(units), c \in UnitChannels :
          AddOutputRelated(u, c, MaxChannels)
    \/ \E u \in 1 .. Len(units), c \in UnitChannels :
          AddInputRelated(u, c, MaxChannels)
    \/ \E u \in 1 .. Len(units), n \in UnitNames : SetName(u, n)

SpecSingle == Init /\ [][NextSingle]_vars

\* --------------------------------------- specification: loading a config

MaxLoads == 1

\* channel configs: with and without start, end, is_output_channel
ChannelConfigs ==
    { [name |-> "conv1"],
      [name |-> "conv1", start |-> 1],
      [name |-> "conv1", end |-> 1],
      [name |-> "fc", start |-> 0, end |-> 2, is_output_channel |-> TRUE],
      [name |-> "fc", start |-> 0, end |-> 2, is_output_channel |-> FALSE] }

\* the lists of at most n elements of S
ListsUpTo(S, n) == UNION { [1 .. k -> S] : k \in 0 .. n }

\* the configs a caller can hand to init_from_cfg, as dict objects: without
\* a channel list, and with one of at most max_configs channel configs
Configs(channel_configs, max_configs) ==
    { <<[init_args |-> [num_channels |-> n]]>> : n \in NumChannels }
    \cup
    { <<[init_args |-> [num_channels |-> c[1]], channels |-> 2],
        [input_related |-> c[2], output_related |-> c[3]]>> :
        c \in { d \in NumChannels
                       \X ListsUpTo(channel_configs, max_configs)
                       \X ListsUpTo(channel_configs, max_configs) :
                  Len(d[2]) + Len(d[3]) <= max_configs } }

InitLoad ==
    /\ Init!1 /\ Init!2 /\ Init!3 /\ Init!5 /\ Init!6
    /\ caller_cfg \in Configs(ChannelConfigs, MaxCfgChannels)

NextLoad ==
    \E m \in Models : InitFromCfg(m, MaxLoads, MaxCfgChannels)

SpecLoad == InitLoad /\ [][NextLoad]_vars

\* ------------------------- specification: a unit that is loaded, or built,
\* and then added to

\* channel configs: their own direction may contradict their list
DirectedChannelConfigs ==
    { [name |-> "conv1"],
      [name |-> "conv1", start |-> 1],
      [name |-> "fc", start |-> 0, end |-> 2, is_output_channel |-> TRUE],
      [name |-> "fc", start |-> 0, end |-> 2, is_output_channel |-> FALSE] }

\* channels handed to add_* after loading
LoadedAddChannels ==
    { Channel("conv2", 4, <<0, 2>>, None, TRUE),
      Channel("conv2", 4, <<0, 1>>, None, FALSE) }

InitCfg ==
    /\ Init!1 /\ Init!2 /\ Init!3 /\ Init!5 /\ Init!6
    /\ caller_cfg \in Configs(DirectedChannelConfigs, MaxCfgChannels)

NextCfg ==
    \/ InitFromCfg("net_a", MaxLoads, MaxCfgChannels)
    \/ \E n \in NumChannels : Construct(n, MaxLoads)
    \/ \E u \in 1 .. Len(units), c \in LoadedAddChannels :
          AddOutputRelated(u, c, MaxCfgChannels)
    \/ \E u \in 1 .. Len(units), c \in LoadedAddChannels :
          AddInputRelated(u, c, MaxCfgChannels)

SpecCfg == InitCfg /\ [][NextCfg]_vars

\* ------------------------------------------- specification: the round trip

\* channels handed to add_*: some differ in module or node only
RoundTripChannels ==
    { Channel("conv1", 3, <<0, 2>>, None, TRUE),
      Channel("conv1", 3, <<0, 2>>, 1, TRUE),
      Channel("conv2", 4, <<1, 2>>, None, FALSE),
      Channel("output_placeholder", None, <<0, 2>>, None, FALSE) }

NextRoundTrip ==
    \/ \E n \in NumChannels : Construct(n, MaxSingle)
    \/ \E u \in 1 .. Len(units), c \in RoundTripChannels :
          AddOutputRelated(u, c, MaxChannels)
    \/ \E u \in 1 .. Len(units), c \in RoundTripChannels :
          AddInputRelated(u, c, MaxChannels)
    \/ \E u \in 1 .. Len(units), m \in Models : RoundTrip(u, m)

SpecRoundTrip == Init /\ [][NextRoundTrip]_vars

\* ---------------------------------------------- specification: is_mutable

ChannelNames == {"conv1", "bn1", "input_placeholder", "output_placeholder"}

ChannelIndexes == {<<0, 2>>, <<0, 16>>, <<2, 16>>}

\* every Channel(name, module, index) over these names, modules and indexes
MutableChannels ==
    { NewChannel(n, m, i) :
        n \in ChannelNames, m \in {None} \cup (ModuleIds \ {5}),
        i \in ChannelIndexes }

NextMutable ==
    \/ \E c \in MutableChannels : MakeChannel(c)
    \/ IsMutable

SpecMutable == Init /\ [][NextMutable]_vars

\* ------------------------------------------------------------------ claims

\* the two lists of unit u, as <<output_related, input_related>> contents
ListsOf(u) ==
    <<lists[units[u].output_related], lists[units[u].input_related]>>

LastIsAdd == last.op \in {"add_output_related", "add_input_related"}

\* the contents, before the last add_* call, of the list that call targets
TargetBefore ==
    IF last.op = "add_output_related" THEN last.before[1] ELSE last.before[2]

\* C4: no list of any unit holds two channels that agree on name, module
\* (by identity), index, direction and node; and an add_* call whose channel
\* agrees in these five fields with one already in the target list raises
\* nothing and leaves both lists of the unit as they were (same length, same
\* order).
C4_NoDuplicates ==
    /\ \A r \in 1 .. Len(lists) : \A i, j \in 1 .. Len(lists[r]) :
          ( /\ lists[r][i].name = lists[r][j].name
            /\ lists[r][i].module = lists[r][j].module
            /\ lists[r][i].index = lists[r][j].index
            /\ lists[r][i].is_output_channel = lists[r][j].is_output_channel
            /\ lists[r][i].node = lists[r][j].node ) => i = j
    /\ ( /\ LastIsAdd
         /\ \E i \in 1 .. Len(TargetBefore) : TargetBefore[i] = last.channel )
       => /\ ~last.raised
          /\ ListsOf(last.unit) = last.before

\* C4 witness: a channel equal to one of the two already in output_related
\* was added again
C4_Witness ==
    /\ last.op = "add_output_related"
    /\ Len(last.before[1]) = 2
    /\ \E i \in 1 .. 2 : last.before[1][i] = last.channel
    /\ last.before[1][1].node # last.before[1][2].node

\* C6: a unit built by init_from_channel_unit has the num_channels of its
\* source and references the very list objects of its source, so that both
\* show the same contents after any add_* through either of them.
C6_SharedLists ==
    \A v \in 1 .. Len(units) :
        source_of[v] # None =>
            LET new == units[v]
                unit == units[source_of[v]]
            IN  /\ new.num_channels = unit.num_channels
                /\ new.input_related = unit.input_related
                /\ new.output_related = unit.output_related
                /\ ListsOf(v) = ListsOf(source_of[v])

\* C6 witness: after init_from_channel_unit, a channel was appended through
\* the new unit and the source holds it
C6_Witness ==
    /\ LastIsAdd
    /\ ~last.raised
    /\ source_of[last.unit] # None
    /\ ListsOf(last.unit) # last.before
    /\ ListsOf(source_of[last.unit]) # last.before

\* C9: name is the assigned value when one was assigned; otherwise it is
\* '<c.name>_<c.index>_<num_channels>' for c the first channel of
\* output_related, or of input_related when output_related is empty, and
\* 'unitx_<num_channels>' when both are empty; alias equals name.
C9_NameDerivation ==
    \A u \in 1 .. Len(units) :
        LET self == units[u]
            out == ListsOf(u)[1]
            in == ListsOf(u)[2]
            n == ToString(self.num_channels)
            derived(c) ==
                c.name \o "_(" \o ToString(c.start) \o ", "
                       \o ToString(c.end) \o ")_" \o n
            expected ==
                IF "_name" \in DOMAIN self THEN self["_name"]
                ELSE IF Len(out) > 0 THEN derived(out[1])
                ELSE IF Len(in) > 0 THEN derived(in[1])
                ELSE "unitx_" \o n
        IN  /\ ChannelUnit_name(self, lists) = expected
            /\ ChannelUnit_alias(self, lists) = ChannelUnit_name(self, lists)

\* C9 witness: an unnamed unit that holds two input channels and no output
\* channel
C9_Witness ==
    \E u \in 1 .. Len(units) :
        /\ "_name" \notin DOMAIN units[u]
        /\ ListsOf(u)[1] = <<>>
        /\ Len(ListsOf(u)[2]) = 2

\* C10: a call of init_from_channel_unit that omits args starts from an
\* empty mapping.
C10_FreshDefaultArgs ==
    (last.op = "init_from_channel_unit" /\ last.defaulted)
        => last.args_at_entry = EmptyDict

\* every channel of the two lists ls = <<output_related, input_related>>
\* spans n channels
Widths(ls, n) ==
    \A k \in 1 .. 2 : \A i \in 1 .. Len(ls[k]) :
        Channel_num_channels(ls[k][i]) = n

\* C1: every channel in an output_related list has is_output_channel = TRUE
\* and every channel in an input_related list has it FALSE; an add_* call
\* whose channel has the wrong direction raises and leaves both lists of the
\* unit as they were.
C1_Direction ==
    /\ \A u \in 1 .. Len(units) :
          /\ \A i \in 1 .. Len(ListsOf(u)[1]) :
                ListsOf(u)[1][i].is_output_channel = TRUE
          /\ \A i \in 1 .. Len(ListsOf(u)[2]) :
                ListsOf(u)[2][i].is_output_channel = FALSE
    /\ ( \/ /\ last.op = "add_output_related"
            /\ last.channel.is_output_channel # TRUE
         \/ /\ last.op = "add_input_related"
            /\ last.channel.is_output_channel # FALSE )
       => /\ last.raised
          /\ ListsOf(last.unit) = last.before

\* C1 witness: a unit loaded from a config whose input_related entry says
\* is_output_channel = TRUE holds that channel, and add_input_related with
\* an output channel has just been rejected
C1_Witness ==
    /\ last.op = "add_input_related"
    /\ last.raised
    /\ Len(caller_cfg) = 2
    /\ \E i \in 1 .. Len(caller_cfg[2].input_related) :
          /\ "is_output_channel" \in DOMAIN caller_cfg[2].input_related[i]
          /\ caller_cfg[2].input_related[i].is_output_channel
    /\ \E i \in 1 .. Len(ListsOf(last.unit)[2]) :
          ListsOf(last.unit)[2][i].name = "fc"

\* C2 as claimed: every channel a unit holds spans as many channels as the
\* unit's num_channels.
C2_SameWidth ==
    \A u \in 1 .. Len(units) : Widths(ListsOf(u), units[u].num_channels)

\* the range a channel config resolves to spans n channels, start defaulting
\* to 0 and end to n
ResolvesToWidth(channel_config, n) ==
    (IF "end" \in DOMAIN channel_config THEN channel_config.end ELSE n)
      - (IF "start" \in DOMAIN channel_config THEN channel_config.start ELSE 0)
    = n

\* C2 as amended: add_* and init_from_cfg store a channel whatever its
\* width; the channels of a unit all span num_channels after an add_* of a
\* channel of that width to a unit of which this held, and after an
\* init_from_cfg of a config each of whose channel configs resolves to a
\* range of that width (as one that omits both start and end does).
C2_SameWidthOfConformingInput ==
    /\ ( /\ LastIsAdd
         /\ Widths(last.before, units[last.unit].num_channels)
         /\ Channel_num_channels(last.channel)
              = units[last.unit].num_channels )
       => Widths(ListsOf(last.unit), units[last.unit].num_channels)
    /\ ( /\ last.op = "init_from_cfg"
         /\ ~last.raised
         /\ Len(last.config) = 2
         /\ \A k \in {"input_related", "output_related"} :
               \A i \in 1 .. Len(last.config[2][k]) :
                   ResolvesToWidth(last.config[2][k][i],
                                   last.config[1].init_args.num_channels) )
       => /\ units[last.unit].num_channels
               = last.config[1].init_args.num_channels
          /\ Widths(ListsOf(last.unit), units[last.unit].num_channels)

\* C2 witness: a config of num_channels 2 with an input channel config that
\* omits start and end and an output one that gives (0, 2) was loaded
C2_Witness ==
    /\ last.op = "init_from_cfg"
    /\ Len(last.config) = 2
    /\ last.config[1].init_args.num_channels = 2
    /\ Len(last.config[2].input_related) = 1
    /\ DOMAIN last.config[2].input_related[1] = {"name"}
    /\ Len(last.config[2].output_related) = 1
    /\ "start" \in DOMAIN last.config[2].output_related[1]
    /\ Len(ListsOf(last.unit)[1]) = 1
    /\ Len(ListsOf(last.unit)[2]) = 1
    /\ Widths(ListsOf(last.unit), 2)

\* the channels of the lists new = <<output_related, input_related>> agree,
\* position by position, with those of old in name, direction and
\* (start, end), and in module when old's modules are those model resolves
SameChannels(old, new, model) ==
    LET name2module == DelItem(named_modules(model), "")
        resolved(c) == c.module = IF c.name \in DOMAIN name2module
                                  THEN name2module[c.name] ELSE None
    IN  \A k \in 1 .. 2 :
          /\ Len(new[k]) = Len(old[k])
          /\ \A i \in 1 .. Len(old[k]) :
                i <= Len(new[k]) =>
                  /\ new[k][i].name = old[k][i].name
                  /\ new[k][i].is_output_channel = old[k][i].is_output_channel
                  /\ new[k][i].start = old[k][i].start
                  /\ new[k][i].end = old[k][i].end
                  /\ ( (\A kk \in 1 .. 2 : \A j \in 1 .. Len(old[kk]) :
                          resolved(old[kk][j]))
                       => new[k][i].module = old[k][i].module )

\* C3 as claimed: init_from_cfg of a unit's config_template(True, True)
\* gives a unit with the same num_channels and, position by position, the
\* same channels.
C3_RoundTrip ==
    last.op = "round_trip" =>
        /\ ~last.raised
        /\ last.new.num_channels = units[last.unit].num_channels
        /\ SameChannels(ListsOf(last.unit),
                        <<last.new.output_related, last.new.input_related>>,
                        last.model)

\* no two channels of one list of ls share name, start and end
DistinctConfigs(ls) ==
    \A k \in 1 .. 2 : \A i, j \in 1 .. Len(ls[k]) :
        ( /\ ls[k][i].name = ls[k][j].name
          /\ ls[k][i].start = ls[k][j].start
          /\ ls[k][i].end = ls[k][j].end ) => i = j

\* C3 as amended: the round trip gives the same num_channels and the same
\* channels position by position when no two channels of one collection of
\* the unit share name, start and end.
C3_RoundTripOfDistinct ==
    (last.op = "round_trip" /\ DistinctConfigs(ListsOf(last.unit))) =>
        /\ ~last.raised
        /\ last.new.num_channels = units[last.unit].num_channels
        /\ SameChannels(ListsOf(last.unit),
                        <<last.new.output_related, last.new.input_related>>,
                        last.model)

\* C3 witness: the round trip, against the model that resolves conv1 and
\* conv2 to their modules, of a unit that holds an output channel of conv1
\* and an input channel of conv2 that starts at 1
C3_Witness ==
    /\ last.op = "round_trip"
    /\ last.model = "net_a"
    /\ Len(ListsOf(last.unit)[1]) = 1
    /\ Len(ListsOf(last.unit)[2]) = 1
    /\ ListsOf(last.unit)[1][1].module = 3
    /\ ListsOf(last.unit)[2][1].module = 4
    /\ ListsOf(last.unit)[2][1].start = 1
    /\ Len(last.new.output_related) = 1
    /\ Len(last.new.input_related) = 1

\* C5: init_from_cfg leaves the caller's config as it was: the 'channels'
\* entry is still there and no channel config has gained or changed a key.
C5_ConfigUnchanged ==
    last.op = "init_from_cfg" =>
        /\ caller_cfg = last.config
        /\ "channels" \in DOMAIN last.config[1]
              => "channels" \in DOMAIN caller_cfg[1]
        /\ Len(last.config) = 2 =>
              \A k \in {"input_related", "output_related"} :
                  \A i \in 1 .. Len(last.config[2][k]) :
                      DOMAIN caller_cfg[2][k][i] = DOMAIN last.config[2][k][i]

\* C5 witness: the loaded config had an input channel config with no start
\* and no end, and an output one that said is_output_channel = FALSE
C5_Witness ==
    /\ last.op = "init_from_cfg"
    /\ Len(last.config) = 2
    /\ Len(last.loaded_input) = 1
    /\ Len(last.loaded_output) = 1
    /\ DOMAIN last.config[2].input_related[1] = {"name"}
    /\ "is_output_channel" \in DOMAIN last.config[2].output_related[1]
    /\ ~last.config[2].output_related[1].is_output_channel
    /\ last.loaded_output[1].is_output_channel

\* C7: the channel loaded from a channel config starts at the config's
\* 'start', or at 0 without one, and ends at its 'end', or at the unit
\* config's init_args.num_channels without one; a config without a channel
\* list gives a unit with two empty lists.
C7_Defaults ==
    last.op = "init_from_cfg" =>
        /\ ~last.raised
        /\ Len(last.config) = 1 => ListsOf(last.unit) = << <<>>, <<>> >>
        /\ Len(last.config) = 2 =>
              \A k \in {"input_related", "output_related"} :
                  LET loaded == IF k = "input_related" THEN last.loaded_input
                                ELSE last.loaded_output
                      configs == last.config[2][k]
                  IN  /\ Len(loaded) = Len(configs)
                      /\ \A i \in 1 .. Len(configs) :
                            /\ loaded[i].start =
                                 IF "start" \in DOMAIN configs[i]
                                 THEN configs[i].start ELSE 0
                            /\ loaded[i].end =
                                 IF "end" \in DOMAIN configs[i]
                                 THEN configs[i].end
                                 ELSE last.config[1].init_args.num_channels
                            /\ loaded[i].index
                                 = <<loaded[i].start, loaded[i].end>>

\* C7 witness: a channel config that holds a name only, in a unit config of
\* num_channels 16, was loaded as (0, 16)
C7_Witness ==
    /\ last.op = "init_from_cfg"
    /\ Len(last.config) = 2
    /\ last.config[1].init_args.num_channels = 16
    /\ Len(last.config[2].output_related) = 1
    /\ DOMAIN last.config[2].output_related[1] = {"name"}
    /\ last.loaded_output[1].index = <<0, 16>>
    /\ ListsOf(last.unit)[1] = last.loaded_output

\* C8: with a module, is_mutable holds iff the module has no parameters or
\* is a DynamicChannelMixin (so it holds of every module without
\* parameters); without a module, it holds iff the name is neither
\* 'input_placeholder' nor 'output_placeholder'.
C8_MutableTable ==
    last.op = "is_mutable" =>
        LET c == last.channel
        IN  /\ (c.module # None /\ n_parameters(c.module) = 0)
                  => last.result = TRUE
            /\ (c.module # None /\ n_parameters(c.module) > 0)
                  => last.result = is_DynamicChannelMixin(c.module)
            /\ (c.module = None /\ c.name = "input_placeholder")
                  => last.result = FALSE
            /\ (c.module = None /\ c.name = "output_placeholder")
                  => last.result = FALSE
            /\ ( /\ c.module = None
                 /\ c.name # "input_placeholder"
                 /\ c.name # "output_placeholder" )
                  => last.result = TRUE

\* C8 witness: is_mutable of a channel whose module has parameters and is a
\* DynamicChannelMixin
C8_Witness ==
    /\ last.op = "is_mutable"
    /\ last.channel.module # None
    /\ n_parameters(last.channel.module) > 0
    /\ is_DynamicChannelMixin(last.channel.module)
    /\ last.result

=============================================================================
